---- MODULE Spec2Model ----
(***************************************************************************)
(* A model of the rialtas_status backend: the Service / StatusUpdate /     *)
(* APIKey store, the key authenticator (api_auth.py), the ingestion and    *)
(* query endpoints (api.py) and the public status page (views.py).         *)
(*                                                                         *)
(* Optional (nullable) values are sequences: None is <<>> and a present    *)
(* value x is <<x>>.                                                       *)
(***************************************************************************)
EXTENDS Integers, Sequences, FiniteSets, TLC

\* ---- bounds of the model ------------------------------------------------
MaxServices == 2
MaxUpdates == 2
MaxTime == 1
MaxKeys == 2
MaxRows == 201

ServiceIds == 1..MaxServices
KeyIds == 1..MaxKeys
Times == 0..MaxTime

None == <<>>
Some(x) == <<x>>

VARIABLES
    services,   \* service id -> [name, description, order, is_active]   (table Service)
    updates,    \* sequence of StatusUpdate rows in storage (insertion) order
    next_id,    \* the next auto-increment id of StatusUpdate
    keys,       \* key id -> [key, is_active, last_used_at]               (table APIKey)
    now,        \* the clock read by timezone.now()
    resp,       \* the request served by the step just taken and its response;
                \* NoResponse when that step was no request
    pending     \* client -> the StatusUpdate instance a POST handler has built
                \* and not yet inserted (requests in flight)

vars == <<services, updates, next_id, keys, now, resp, pending>>

\* ---- models.py ------------------------------------------------------------

\* StatusUpdate.STATUS_CHOICES: <<code, label>> pairs.
STATUS_CHOICES ==
    << <<"stable", "Stable">>,
       <<"degraded", "Degraded Performance">>,
       <<"partial", "Partial Outage">>,
       <<"down", "Major Outage">>,
       <<"maintenance", "Maintenance">> >>

\* Django's get_FOO_display for the status field: the label of the code, the
\* code itself when it is no choice.
get_status_display(status) ==
    IF \E i \in DOMAIN STATUS_CHOICES : STATUS_CHOICES[i][1] = status
    THEN STATUS_CHOICES[CHOOSE i \in DOMAIN STATUS_CHOICES : STATUS_CHOICES[i][1] = status][2]
    ELSE status

\* The name of service s. Names are unique (unique=True); the model names the
\* service with id s by the number s, which also gives the names their order.
ServiceName(s) == s

\* A new Service row with the field defaults of the model.
NewService(s) ==
    [name |-> ServiceName(s), description |-> "", order |-> 0, is_active |-> TRUE]

\* NewStatusUpdate with the two free texts taken one for the other.
NewStatusUpdate_texts_swapped(id, service, status, comments, plan, created_at, created_by) ==
    [id |-> id, service |-> service, status |-> status, problem |-> "", comments |-> plan,
     plan |-> comments, created_at |-> created_at, created_by |-> created_by]

\* A StatusUpdate row, with the fields that StatusUpdate.objects.create is
\* given in create_status_update (api.py) and that status_update_to_dict reads;
\* problem, which no caller gives, is blank.
NewStatusUpdate(id, service, status, comments, plan, created_at, created_by) ==
    [id |-> id, service |-> service, status |-> status, problem |-> "", comments |-> comments,
     plan |-> plan, created_at |-> created_at, created_by |-> created_by]

\* service.status_updates: the positions in storage of the rows of service s.
status_updates(s) == {i \in DOMAIN updates : updates[i].service = s}

\* get_current_status falling back on a stable status for a service without rows.
get_current_status_default_stable(s) ==
    IF {i \in DOMAIN updates : updates[i].service = s} = {}
    THEN {Some([id |-> 0, service |-> s, status |-> "stable", problem |-> "", comments |-> "",
                plan |-> "",
                created_at |-> 0, created_by |-> None])}
    ELSE {Some(updates[i]) : i \in
            {j \in DOMAIN updates :
                /\ updates[j].service = s
                /\ \A k \in DOMAIN updates :
                      updates[k].service = s => updates[k].created_at <= updates[j].created_at}}

\* status_updates.order_by('-created_at').first(): the set of results the
\* query may give. The ordering names created_at only, so among the rows that
\* share the greatest created_at the database is free to return any.
get_current_status(s) ==
    IF status_updates(s) = {} THEN {None}
    ELSE {Some(updates[i]) : i \in
            {j \in status_updates(s) :
                \A k \in status_updates(s) : updates[k].created_at <= updates[j].created_at}}

\* The rows at the positions S of `rows`, which share one created_at, in
\* every order: the ordering names no second key.
TiedOrders(rows, S) ==
    {[p \in DOMAIN f |-> rows[f[p]]] :
        f \in {g \in [1..Cardinality(S) -> S] :
                  \A a, b \in DOMAIN g : a # b => g[a] # g[b]}}

\* The rows at the positions S, whose created_at lie in lo..hi, in every order
\* of descending created_at.
RECURSIVE OrdersBetween(_, _, _, _)
OrdersBetween(rows, S, lo, hi) ==
    IF S = {} THEN {<<>>}
    ELSE IF lo = hi THEN TiedOrders(rows, S)
    ELSE LET mid == (lo + hi) \div 2
         IN {later \o earlier :
                later \in OrdersBetween(rows, {i \in S : rows[i].created_at > mid}, mid + 1, hi),
                earlier \in OrdersBetween(rows, {i \in S : rows[i].created_at <= mid}, lo, mid)}

\* ordering = ['-created_at'] (Meta of StatusUpdate, and order_by('-created_at')):
\* the orders in which the database may give the rows. Rows that share a
\* created_at come in any order.
OrderByCreatedAtDesc(rows) ==
    LET times == {rows[i].created_at : i \in DOMAIN rows}
    IN IF rows = <<>> THEN {<<>>}
       ELSE OrdersBetween(rows, DOMAIN rows,
                          CHOOSE t \in times : \A u \in times : t <= u,
                          CHOOSE t \in times : \A u \in times : u <= t)

\* qs[:limit] for limit >= 0 (LIMIT limit).
Slice(q, limit) == SubSeq(q, 1, IF limit < Len(q) THEN limit ELSE Len(q))

\* service.status_updates, as the rows in storage order.
ServiceRows(s) == SelectSeq(updates, LAMBDA u : u.service = s)

\* Meta.ordering = ['order', 'name'] of Service.
ServiceBefore(a, b) ==
    \/ services[a].order < services[b].order
    \/ /\ services[a].order = services[b].order
       /\ services[a].name < services[b].name

\* The services of the set S in Meta.ordering, as a sequence.
RECURSIVE OrderedServices(_)
OrderedServices(S) ==
    IF S = {} THEN <<>>
    ELSE LET first == CHOOSE a \in S : \A b \in S \ {a} : ServiceBefore(a, b)
         IN <<first>> \o OrderedServices(S \ {first})

\* ---- api_auth.py ----------------------------------------------------------

\* The key generated for the APIKey row k (unique per row), the token of the
\* tests' 'Bearer invalid_key_12345', and a request without Authorization.
KeyToken(k) == <<"key", k>>
InvalidToken == <<"invalid_key_12345">>
NoToken == None

\* A new APIKey row: active, never used.
NewAPIKey(k) == [key |-> KeyToken(k), is_active |-> TRUE, last_used_at |-> None]

\* KeyLookup without the is_active filter.
KeyLookup_any_key(token) == {k \in DOMAIN keys : keys[k].key = token}

\* APIKey.objects.get(key=token, is_active=True): the rows that match.
KeyLookup(token) == {k \in DOMAIN keys : keys[k].key = token /\ keys[k].is_active}

\* authenticate that returns the key without assigning last_used_at.
authenticate_without_last_used(token, saved) ==
    IF {k \in DOMAIN keys : keys[k].key = token /\ keys[k].is_active} = {}
    THEN [result |-> None, raised |-> FALSE, keys |-> keys]
    ELSE LET api_key == CHOOSE k \in DOMAIN keys : keys[k].key = token /\ keys[k].is_active
         IN IF saved
            THEN [result |-> Some(api_key), raised |-> FALSE, keys |-> keys]
            ELSE [result |-> None, raised |-> TRUE, keys |-> keys]

\* authenticate that finds the key by its token alone, writes last_used_at,
\* and only then rejects a key that is not active.
authenticate_stamping_first(token, saved) ==
    IF {k \in DOMAIN keys : keys[k].key = token} = {}
    THEN [result |-> None, raised |-> FALSE, keys |-> keys]
    ELSE LET api_key == CHOOSE k \in DOMAIN keys : keys[k].key = token
         IN IF ~saved
            THEN [result |-> None, raised |-> TRUE, keys |-> keys]
            ELSE [result |-> IF keys[api_key].is_active THEN Some(api_key) ELSE None,
                  raised |-> FALSE,
                  keys |-> [keys EXCEPT ![api_key].last_used_at = Some(now)]]

\* APIKeyAuth.authenticate(request, token). `saved` tells whether the store
\* persists api_key.save(update_fields=['last_used_at']); when it does not,
\* save raises, and the only exception caught is APIKey.DoesNotExist.
\* The value is [result: the key or None, raised, keys: the table afterwards].
authenticate(token, saved) ==
    IF KeyLookup(token) = {}
    THEN [result |-> None, raised |-> FALSE, keys |-> keys]
    ELSE LET api_key == CHOOSE k \in KeyLookup(token) : TRUE
         IN IF saved
            THEN [result |-> Some(api_key), raised |-> FALSE,
                  keys |-> [keys EXCEPT ![api_key].last_used_at = Some(now)]]
            ELSE [result |-> None, raised |-> TRUE, keys |-> keys]

\* ---- api.py ---------------------------------------------------------------

\* ApiAuth that lets a request without Authorization header through.
ApiAuth_anonymous(token, saved) ==
    IF token = NoToken
    THEN [result |-> Some(0), raised |-> FALSE, keys |-> keys]
    ELSE authenticate(token, saved)

\* NinjaAPI(auth=APIKeyAuth()): HttpBearer calls authenticate with the bearer
\* token, and answers 401 itself when the request carries none.
ApiAuth(token, saved) ==
    IF token = NoToken
    THEN [result |-> None, raised |-> FALSE, keys |-> keys]
    ELSE authenticate(token, saved)

\* No request was served.
NoResponse == [op |-> "none", token |-> NoToken, req |-> None, code |-> 0, body |-> None]

\* The response to a request, with the request it answers.
Response(op, token, req, code, body) ==
    [op |-> op, token |-> token, req |-> req, code |-> code, body |-> body]

\* What the API answers when authenticate gave no key: 401 when it returned
\* None, 500 when it raised.
AuthFailure(op, token, req, auth) ==
    IF auth.raised
    THEN Response(op, token, req, 500, [detail |-> "Server Error"])
    ELSE Response(op, token, req, 401, [detail |-> "Unauthorized"])

NotFound(op, token, req) == Response(op, token, req, 404, [detail |-> "Not Found"])

\* ServiceResolves with the is_active filter of the public views.
ServiceResolves_active_only(service_id) ==
    service_id \in DOMAIN services /\ services[service_id].is_active

\* get_object_or_404(Service, id=service_id) finds a row: any service, whatever
\* its is_active.
ServiceResolves(service_id) == service_id \in DOMAIN services

status_update_to_dict(update) ==
    [id |-> update.id,
     service_id |-> update.service,
     service_name |-> services[update.service].name,
     status |-> update.status,
     status_display |-> get_status_display(update.status),
     comments |-> update.comments,
     plan |-> update.plan,
     created_at |-> update.created_at,
     created_by_username |-> update.created_by]

\* service_to_dict(service), current_status being what get_current_status gave.
service_to_dict(s, current_status) ==
    [id |-> s,
     name |-> services[s].name,
     description |-> services[s].description,
     order |-> services[s].order,
     is_active |-> services[s].is_active,
     current_status |-> IF current_status # None
                        THEN Some(status_update_to_dict(current_status[1]))
                        ELSE None]

\* valid_statuses taken from the labels, choice[1].
valid_statuses_labels == [i \in DOMAIN STATUS_CHOICES |-> STATUS_CHOICES[i][2]]

\* [choice[0] for choice in StatusUpdate.STATUS_CHOICES]
valid_statuses == [i \in DOMAIN STATUS_CHOICES |-> STATUS_CHOICES[i][1]]

InSeq(x, seq) == \E i \in DOMAIN seq : seq[i] = x

\* sep.join(seq), as the sequence of its pieces.
RECURSIVE Join(_, _)
Join(seq, sep) ==
    IF Len(seq) <= 1 THEN seq
    ELSE <<Head(seq), sep>> \o Join(Tail(seq), sep)

\* f"Invalid status. Must be one of: {', '.join(valid_statuses)}"
InvalidStatusMessage == <<"Invalid status. Must be one of: ">> \o Join(valid_statuses, ", ")

\* payload.comments or "", payload.plan or ""
OrEmpty(x) == IF x = None \/ x = Some("") THEN "" ELSE x[1]

\* create_status_update that keeps one row per service: it writes over the
\* row the service has (update_or_create) instead of adding one.
create_status_update_upsert(token, saved, payload) ==
    LET auth == ApiAuth(token, saved)
        op == "create_status_update"
        status_update == NewStatusUpdate(next_id, payload.service_id, payload.status,
                                         OrEmpty(payload.comments), OrEmpty(payload.plan),
                                         now, None)
    IN /\ keys' = auth.keys
       /\ UNCHANGED <<services, now, pending>>
       /\ IF auth.result = None
          THEN /\ resp' = AuthFailure(op, token, payload, auth)
               /\ UNCHANGED <<updates, next_id>>
          ELSE IF ~ServiceResolves(payload.service_id)
          THEN /\ resp' = NotFound(op, token, payload)
               /\ UNCHANGED <<updates, next_id>>
          ELSE IF ~InSeq(payload.status, valid_statuses)
          THEN /\ resp' = Response(op, token, payload, 400, [detail |-> InvalidStatusMessage])
               /\ UNCHANGED <<updates, next_id>>
          ELSE /\ next_id <= MaxUpdates
               /\ updates' = Append(SelectSeq(updates, LAMBDA u : u.service # payload.service_id),
                                    status_update)
               /\ next_id' = next_id + 1
               /\ resp' = Response(op, token, payload, 201, status_update_to_dict(status_update))

\* create_status_update that checks the status before it looks the service up.
create_status_update_status_first(token, saved, payload) ==
    LET auth == ApiAuth(token, saved)
        op == "create_status_update"
        status_update == NewStatusUpdate(next_id, payload.service_id, payload.status,
                                         OrEmpty(payload.comments), OrEmpty(payload.plan),
                                         now, None)
    IN /\ keys' = auth.keys
       /\ UNCHANGED <<services, now, pending>>
       /\ IF auth.result = None
          THEN /\ resp' = AuthFailure(op, token, payload, auth)
               /\ UNCHANGED <<updates, next_id>>
          ELSE IF ~InSeq(payload.status, valid_statuses)
          THEN /\ resp' = Response(op, token, payload, 400, [detail |-> InvalidStatusMessage])
               /\ UNCHANGED <<updates, next_id>>
          ELSE IF ~ServiceResolves(payload.service_id)
          THEN /\ resp' = NotFound(op, token, payload)
               /\ UNCHANGED <<updates, next_id>>
          ELSE /\ next_id <= MaxUpdates
               /\ updates' = Append(updates, status_update)
               /\ next_id' = next_id + 1
               /\ resp' = Response(op, token, payload, 201, status_update_to_dict(status_update))

\* POST /status-updates
create_status_update(token, saved, payload) ==
    LET auth == ApiAuth(token, saved)
        op == "create_status_update"
        status_update == NewStatusUpdate(next_id, payload.service_id, payload.status,
                                         OrEmpty(payload.comments), OrEmpty(payload.plan),
                                         now, None)
    IN /\ keys' = auth.keys
       /\ UNCHANGED <<services, now, pending>>
       /\ IF auth.result = None
          THEN /\ resp' = AuthFailure(op, token, payload, auth)
               /\ UNCHANGED <<updates, next_id>>
          ELSE IF ~ServiceResolves(payload.service_id)
          THEN /\ resp' = NotFound(op, token, payload)
               /\ UNCHANGED <<updates, next_id>>
          ELSE IF ~InSeq(payload.status, valid_statuses)
          THEN /\ resp' = Response(op, token, payload, 400, [detail |-> InvalidStatusMessage])
               /\ UNCHANGED <<updates, next_id>>
          ELSE /\ next_id <= MaxUpdates
               /\ updates' = Append(updates, status_update)
               /\ next_id' = next_id + 1
               /\ resp' = Response(op, token, payload, 201, status_update_to_dict(status_update))

\* POST /status-updates, up to the INSERT: the handler authenticates, looks the
\* service up, checks the status and builds the StatusUpdate instance, whose
\* created_at is the default timezone.now() read at that moment. Another
\* request may run before the row is inserted.
create_status_update_begin(client, token, saved, payload) ==
    LET auth == ApiAuth(token, saved)
        op == "create_status_update"
        status_update == NewStatusUpdate(0, payload.service_id, payload.status,
                                         OrEmpty(payload.comments), OrEmpty(payload.plan),
                                         now, None)
    IN /\ client \notin DOMAIN pending
       /\ next_id + Cardinality(DOMAIN pending) <= MaxUpdates
       /\ keys' = auth.keys
       /\ UNCHANGED <<services, updates, next_id, now>>
       /\ IF auth.result = None
          THEN resp' = AuthFailure(op, token, payload, auth) /\ UNCHANGED pending
          ELSE IF ~ServiceResolves(payload.service_id)
          THEN resp' = NotFound(op, token, payload) /\ UNCHANGED pending
          ELSE IF ~InSeq(payload.status, valid_statuses)
          THEN /\ resp' = Response(op, token, payload, 400, [detail |-> InvalidStatusMessage])
               /\ UNCHANGED pending
          ELSE /\ pending' = pending @@
                    (client :> [token |-> token, payload |-> payload, update |-> status_update])
               /\ resp' = NoResponse

\* create_status_update_commit that writes over the row the service has
\* (update_or_create on the service) instead of inserting.
create_status_update_commit_replacing(client) ==
    /\ client \in DOMAIN pending
    /\ LET status_update == [pending[client].update EXCEPT !.id = next_id]
       IN /\ updates' = Append(SelectSeq(updates, LAMBDA u : u.service # status_update.service),
                               status_update)
          /\ resp' = Response("create_status_update", pending[client].token,
                              pending[client].payload, 201, status_update_to_dict(status_update))
    /\ next_id' = next_id + 1
    /\ pending' = [c \in DOMAIN pending \ {client} |-> pending[c]]
    /\ UNCHANGED <<services, keys, now>>

\* POST /status-updates, from the INSERT on: the row gets its id and is
\* stored, and the handler answers 201 with it.
create_status_update_commit(client) ==
    /\ client \in DOMAIN pending
    /\ LET status_update == [pending[client].update EXCEPT !.id = next_id]
       IN /\ updates' = Append(updates, status_update)
          /\ resp' = Response("create_status_update", pending[client].token,
                              pending[client].payload, 201, status_update_to_dict(status_update))
    /\ next_id' = next_id + 1
    /\ pending' = [c \in DOMAIN pending \ {client} |-> pending[c]]
    /\ UNCHANGED <<services, keys, now>>

\* GET /services/{service_id}
get_service(token, saved, service_id) ==
    LET auth == ApiAuth(token, saved)
        op == "get_service"
    IN /\ keys' = auth.keys
       /\ UNCHANGED <<services, updates, next_id, now, pending>>
       /\ IF auth.result = None
          THEN resp' = AuthFailure(op, token, service_id, auth)
          ELSE IF ~ServiceResolves(service_id)
          THEN resp' = NotFound(op, token, service_id)
          ELSE \E current_status \in get_current_status(service_id) :
                  resp' = Response(op, token, service_id, 200,
                                   service_to_dict(service_id, current_status))

\* What the API answers when the handler raised.
ServerError(op, token, req) == Response(op, token, req, 500, [detail |-> "Server Error"])

\* A query parameter the request may leave out: its value, else the default of
\* the handler's signature.
ParamOr(param, default) == IF param = None THEN default ELSE param[1]

\* list_limit without the cap.
list_limit_uncapped(limit) == limit

\* if limit > 200: limit = 200
list_limit(limit) == IF limit > 200 THEN 200 ELSE limit

\* if limit > 100: limit = 100
history_limit(limit) == IF limit > 100 THEN 100 ELSE limit

\* GET /status-updates?limit= (limit: int = 50). A negative limit makes the
\* slice raise ("Negative indexing is not supported").
list_status_updates(token, saved, limit) ==
    LET auth == ApiAuth(token, saved)
        op == "list_status_updates"
        n == list_limit(ParamOr(limit, 50))
    IN /\ keys' = auth.keys
       /\ UNCHANGED <<services, updates, next_id, now, pending>>
       /\ IF auth.result = None
          THEN resp' = AuthFailure(op, token, limit, auth)
          ELSE IF n < 0
          THEN resp' = ServerError(op, token, limit)
          ELSE \E q \in OrderByCreatedAtDesc(updates) :
                  resp' = Response(op, token, limit, 200,
                                   [i \in DOMAIN Slice(q, n) |-> status_update_to_dict(q[i])])

\* GET /status-updates/{update_id}
get_status_update(token, saved, update_id) ==
    LET auth == ApiAuth(token, saved)
        op == "get_status_update"
        found == {i \in DOMAIN updates : updates[i].id = update_id}
    IN /\ keys' = auth.keys
       /\ UNCHANGED <<services, updates, next_id, now, pending>>
       /\ IF auth.result = None
          THEN resp' = AuthFailure(op, token, update_id, auth)
          ELSE IF found = {}
          THEN resp' = NotFound(op, token, update_id)
          ELSE resp' = Response(op, token, update_id, 200,
                                status_update_to_dict(updates[CHOOSE i \in found : TRUE]))

\* GET /services?active_only= (active_only: bool = True)
list_services(token, saved, active_only) ==
    LET auth == ApiAuth(token, saved)
        op == "list_services"
        listed == IF ParamOr(active_only, TRUE)
                  THEN {s \in DOMAIN services : services[s].is_active}
                  ELSE DOMAIN services
        order == OrderedServices(listed)
    IN /\ keys' = auth.keys
       /\ UNCHANGED <<services, updates, next_id, now, pending>>
       /\ IF auth.result = None
          THEN resp' = AuthFailure(op, token, active_only, auth)
          ELSE \E current \in [listed -> UNION {get_current_status(s) : s \in listed}] :
                  /\ \A s \in listed : current[s] \in get_current_status(s)
                  /\ resp' = Response(op, token, active_only, 200,
                                      [i \in DOMAIN order |->
                                          service_to_dict(order[i], current[order[i]])])

\* GET /services/{service_id}/history?limit= (limit: int = 20)
get_service_history(token, saved, service_id, limit) ==
    LET auth == ApiAuth(token, saved)
        op == "get_service_history"
        req == [service_id |-> service_id, limit |-> limit]
        n == history_limit(ParamOr(limit, 20))
    IN /\ keys' = auth.keys
       /\ UNCHANGED <<services, updates, next_id, now, pending>>
       /\ IF auth.result = None
          THEN resp' = AuthFailure(op, token, req, auth)
          ELSE IF ~ServiceResolves(service_id)
          THEN resp' = NotFound(op, token, req)
          ELSE IF n < 0
          THEN resp' = ServerError(op, token, req)
          ELSE \E q \in OrderByCreatedAtDesc(ServiceRows(service_id)) :
                  resp' = Response(op, token, req, 200,
                                   [i \in DOMAIN Slice(q, n) |-> status_update_to_dict(q[i])])

\* GET /health (auth=None): the authenticator is not called.
health_check(token) ==
    /\ resp' = Response("health_check", token, None, 200, [message |-> "API is running"])
    /\ UNCHANGED <<services, updates, next_id, keys, now, pending>>

\* ---- views.py -------------------------------------------------------------

\* Upgrade whose 'partial' branch does not look at the running status.
Upgrade_partial_over_down(overall_status, status) ==
    IF status = "down" THEN "down"
    ELSE IF status = "partial" THEN "partial"
    ELSE IF status = "degraded" /\ overall_status \notin {"down", "partial"} THEN "degraded"
    ELSE IF status = "maintenance" /\ overall_status = "stable" THEN "maintenance"
    ELSE overall_status

\* Upgrade whose 'maintenance' branch yields only to down and partial.
Upgrade_maintenance_over_degraded(overall_status, status) ==
    IF status = "down" THEN "down"
    ELSE IF status = "partial" /\ overall_status # "down" THEN "partial"
    ELSE IF status = "degraded" /\ overall_status \notin {"down", "partial"} THEN "degraded"
    ELSE IF status = "maintenance" /\ overall_status \notin {"down", "partial"} THEN "maintenance"
    ELSE overall_status

\* One pass of the loop body of status_page over a service whose current
\* status has the code `status`: "worst case wins".
Upgrade(overall_status, status) ==
    IF status = "down" THEN "down"
    ELSE IF status = "partial" /\ overall_status # "down" THEN "partial"
    ELSE IF status = "degraded" /\ overall_status \notin {"down", "partial"} THEN "degraded"
    ELSE IF status = "maintenance" /\ overall_status = "stable" THEN "maintenance"
    ELSE overall_status

\* The loop of status_page over services_data, from the running overall_status.
RECURSIVE FoldOverall(_, _)
FoldOverall(services_data, overall_status) ==
    IF services_data = <<>> THEN overall_status
    ELSE LET current_status == Head(services_data).current_status
         IN FoldOverall(Tail(services_data),
                        IF current_status # None
                        THEN Upgrade(overall_status, current_status[1].status)
                        ELSE overall_status)

\* Service.objects.filter(is_active=True)
ActiveServices == {s \in DOMAIN services : services[s].is_active}

\* The public status page: every active service, in Meta.ordering, with the
\* result of its get_current_status(), and the overall status.
status_page ==
    \E current \in [ActiveServices -> UNION {get_current_status(s) : s \in ActiveServices}] :
        /\ \A s \in ActiveServices : current[s] \in get_current_status(s)
        /\ LET order == OrderedServices(ActiveServices)
               services_data == [i \in DOMAIN order |->
                                    [service |-> order[i], current_status |-> current[order[i]]]]
           IN resp' = Response("status_page", NoToken, None, 200,
                               [services_data |-> services_data,
                                overall_status |-> FoldOverall(services_data, "stable")])
        /\ UNCHANGED <<services, updates, next_id, keys, now, pending>>

\* get_object_or_404(Service, id=service_id, is_active=True) of the public
\* views finds a row.
ActiveServiceResolves(service_id) ==
    service_id \in DOMAIN services /\ services[service_id].is_active

\* The public detail page of a service: the service and the result of
\* get_recent_updates(limit=5), order_by('-created_at')[:5].
service_detail(service_id) ==
    /\ UNCHANGED <<services, updates, next_id, keys, now, pending>>
    /\ IF ~ActiveServiceResolves(service_id)
       THEN resp' = NotFound("service_detail", NoToken, service_id)
       ELSE \E q \in OrderByCreatedAtDesc(ServiceRows(service_id)) :
               resp' = Response("service_detail", NoToken, service_id, 200,
                                [service |-> service_id, recent_updates |-> Slice(q, 5)])

\* The public history of a service as JSON: service.status_updates.all()[:10].
service_history_json(service_id) ==
    /\ UNCHANGED <<services, updates, next_id, keys, now, pending>>
    /\ IF ~ActiveServiceResolves(service_id)
       THEN resp' = NotFound("service_history_json", NoToken, service_id)
       ELSE \E q \in OrderByCreatedAtDesc(ServiceRows(service_id)) :
               resp' = Response("service_history_json", NoToken, service_id, 200,
                                [service |-> services[service_id].name,
                                 updates |-> [i \in DOMAIN Slice(q, 10) |->
                                                [status |-> get_status_display(q[i].status),
                                                 status_code |-> q[i].status,
                                                 problem |-> q[i].problem,
                                                 plan |-> q[i].plan,
                                                 created_at |-> q[i].created_at,
                                                 created_by |-> q[i].created_by]]])

\* ---- admin.py and the ORM -------------------------------------------------

\* ServiceAdmin: add a service.
AdminAddService(s) ==
    /\ s \notin DOMAIN services
    /\ services' = services @@ (s :> NewService(s))
    /\ resp' = NoResponse
    /\ UNCHANGED <<updates, next_id, keys, now, pending>>

\* AdminDeleteService with on_delete=DO_NOTHING: the rows of the service stay.
AdminDeleteService_keeping_updates(s) ==
    /\ s \in DOMAIN services
    /\ services' = [t \in DOMAIN services \ {s} |-> services[t]]
    /\ resp' = NoResponse
    /\ UNCHANGED <<updates, next_id, keys, now, pending>>

\* ServiceAdmin: delete a service. service = ForeignKey(Service,
\* on_delete=CASCADE) deletes the StatusUpdates of the service with it.
AdminDeleteService(s) ==
    /\ s \in DOMAIN services
    /\ services' = [t \in DOMAIN services \ {s} |-> services[t]]
    /\ updates' = SelectSeq(updates, LAMBDA u : u.service # s)
    /\ resp' = NoResponse
    /\ UNCHANGED <<next_id, keys, now, pending>>

\* ServiceAdmin.list_editable = ['order', 'is_active'].
AdminEditService(s, order, is_active) ==
    /\ s \in DOMAIN services
    /\ services' = [services EXCEPT ![s].order = order, ![s].is_active = is_active]
    /\ resp' = NoResponse
    /\ UNCHANGED <<updates, next_id, keys, now, pending>>

\* APIKeyAdmin: add a key.
AdminAddAPIKey(k) ==
    /\ k \notin DOMAIN keys
    /\ keys' = keys @@ (k :> NewAPIKey(k))
    /\ resp' = NoResponse
    /\ UNCHANGED <<services, updates, next_id, now, pending>>

\* APIKeyAdmin: is_active is the editable flag of a key (revoke, restore).
AdminSetKeyActive(k, is_active) ==
    /\ k \in DOMAIN keys
    /\ keys' = [keys EXCEPT ![k].is_active = is_active]
    /\ resp' = NoResponse
    /\ UNCHANGED <<services, updates, next_id, now, pending>>

\* StatusUpdate.objects.create(service=, status=, created_at=): created_at has
\* default=timezone.now, so a caller may give any value.
StatusUpdate_create(s, status, created_at) ==
    /\ s \in DOMAIN services
    /\ next_id <= MaxUpdates
    /\ updates' = Append(updates, NewStatusUpdate(next_id, s, status, "", "", created_at, None))
    /\ next_id' = next_id + 1
    /\ resp' = NoResponse
    /\ UNCHANGED <<services, keys, now, pending>>

\* Time passes.
Tick ==
    /\ now < MaxTime
    /\ now' = now + 1
    /\ resp' = NoResponse
    /\ UNCHANGED <<services, updates, next_id, keys, pending>>

\* ---- specifications -------------------------------------------------------


\* The empty database.
Init ==
    /\ services = <<>>
    /\ updates = <<>>
    /\ next_id = 1
    /\ keys = <<>>
    /\ now = 0
    /\ resp = NoResponse
    /\ pending = <<>>

Statuses == {valid_statuses[i] : i \in DOMAIN valid_statuses}
Tokens == {KeyToken(k) : k \in KeyIds} \cup {InvalidToken, NoToken}

\* A database in which the administrator has created the key 1.
InitWithKey ==
    /\ services = <<>>
    /\ updates = <<>>
    /\ next_id = 1
    /\ keys = (1 :> NewAPIKey(1))
    /\ now = 0
    /\ resp = NoResponse
    /\ pending = <<>>

\* The current status: rows are stored for the services, with any created_at,
\* and the services are read through the API.
NextCurrent ==
    \/ \E s \in ServiceIds : AdminAddService(s)
    \/ \E s \in ServiceIds, status \in {"stable", "down"}, t \in Times :
          StatusUpdate_create(s, status, t)
    \/ \E token \in {KeyToken(1), InvalidToken}, saved \in BOOLEAN, s \in ServiceIds :
          get_service(token, saved, s)

SpecCurrent == InitWithKey /\ [][NextCurrent]_vars

\* The status page: services are added, reordered, deactivated and
\* reactivated, rows of every status are stored, and the page is rendered.
NextPage ==
    \/ \E s \in ServiceIds : AdminAddService(s)
    \/ \E s \in ServiceIds, order \in {0, 1}, is_active \in BOOLEAN :
          AdminEditService(s, order, is_active)
    \/ \E s \in ServiceIds, status \in Statuses : StatusUpdate_create(s, status, now)
    \/ status_page

SpecPage == Init /\ [][NextPage]_vars

\* The authenticator: keys are created, revoked and restored while requests
\* arrive with every kind of token.
NextAuth ==
    \/ \E k \in KeyIds : AdminAddAPIKey(k)
    \/ \E k \in KeyIds, is_active \in BOOLEAN : AdminSetKeyActive(k, is_active)
    \/ AdminAddService(1)
    \/ Tick
    \/ \E token \in Tokens, saved \in BOOLEAN : get_service(token, saved, 1)

SpecAuth == Init /\ [][NextAuth]_vars

\* The request bodies of POST /status-updates: for every service id a valid
\* status and one that is none with comments and plan null, and a valid status
\* with comments given and an empty plan.
Payloads ==
    {[service_id |-> s, status |-> st, comments |-> None, plan |-> None] :
        s \in ServiceIds, st \in {"stable", "down", "invalid_status"}}
    \cup
    {[service_id |-> s, status |-> "down",
      comments |-> Some("Database connection lost"), plan |-> Some("")] : s \in ServiceIds}

\* The database with the key 1, at any time of the clock.
InitIngest ==
    /\ services = <<>>
    /\ updates = <<>>
    /\ next_id = 1
    /\ keys = (1 :> NewAPIKey(1))
    /\ now \in Times
    /\ resp = NoResponse
    /\ pending = <<>>

\* Ingestion: services are added, deactivated and reactivated while updates
\* are posted.
NextIngest ==
    \/ \E s \in ServiceIds : AdminAddService(s)
    \/ \E s \in ServiceIds, is_active \in BOOLEAN : AdminEditService(s, 0, is_active)
    \/ \E token \in {KeyToken(1), InvalidToken}, payload \in Payloads :
          create_status_update(token, TRUE, payload)

SpecIngest == InitIngest /\ [][NextIngest]_vars

\* The request bodies of the history scenario: every status for the service 1,
\* one status for the others; comments and plan left out.
PayloadsHistory ==
    {[service_id |-> s, status |-> st, comments |-> None, plan |-> None] :
        s \in ServiceIds, st \in Statuses} \ 
    {[service_id |-> s, status |-> st, comments |-> None, plan |-> None] :
        s \in ServiceIds \ {1}, st \in Statuses \ {"down"}}

\* The limits the readers of the history scenario give: none, and 1.
LimitsHistory == {None, Some(1)}

\* History: updates are posted with the key 1 as time passes, and are read
\* back by id, in the list, in the history and as the current status.
NextHistory ==
    \/ \E s \in ServiceIds : AdminAddService(s)
    \/ Tick
    \/ \E payload \in PayloadsHistory : create_status_update(KeyToken(1), TRUE, payload)
    \/ \E update_id \in 1..MaxUpdates : get_status_update(KeyToken(1), TRUE, update_id)
    \/ \E limit \in LimitsHistory : list_status_updates(KeyToken(1), TRUE, limit)
    \/ \E s \in ServiceIds, limit \in LimitsHistory :
          get_service_history(KeyToken(1), TRUE, s, limit)
    \/ \E s \in ServiceIds : get_service(KeyToken(1), TRUE, s)

SpecHistory == InitWithKey /\ [][NextHistory]_vars

\* The numbers of stored rows of the limit scenario: around the defaults and
\* the caps of the two listings, up to MaxRows.
RowCounts == {0, 1, 20, 21, 50, 51, 100, 101, 200, MaxRows}

\* The limits a request gives: none, or an integer.
Limits == {None} \cup {Some(n) : n \in {-1, 0, 1, 20, 21, 100, 101, 200, 201, 1000}}

\* A database with the key 1 and the service 1, for which a number of updates
\* were stored, one per unit of time.
InitLimit ==
    \E n \in RowCounts :
        /\ services = (1 :> NewService(1))
        /\ updates = [i \in 1..n |-> NewStatusUpdate(i, 1, "stable", "", "", i, None)]
        /\ next_id = n + 1
        /\ keys = (1 :> NewAPIKey(1))
        /\ now = n
        /\ resp = NoResponse
        /\ pending = <<>>

\* Limits: the two listings are requested with and without a limit.
NextLimit ==
    \/ \E limit \in Limits : list_status_updates(KeyToken(1), TRUE, limit)
    \/ \E limit \in Limits : get_service_history(KeyToken(1), TRUE, 1, limit)

SpecLimit == InitLimit /\ [][NextLimit]_vars

\* The clients that post at the same time.
Clients == {"a", "b"}

\* The request bodies of the concurrent clients.
PayloadsConcurrent ==
    {[service_id |-> s, status |-> st, comments |-> None, plan |-> None] :
        s \in ServiceIds, st \in {"stable", "down"}}

\* Concurrent ingestion: the handlers of two clients run interleaved with each
\* other and with the clock, and the services are read.
NextConcurrent ==
    \/ \E s \in ServiceIds : AdminAddService(s)
    \/ Tick
    \/ \E client \in Clients, payload \in PayloadsConcurrent :
          create_status_update_begin(client, KeyToken(1), TRUE, payload)
    \/ \E client \in Clients : create_status_update_commit(client)
    \/ \E s \in ServiceIds : get_service(KeyToken(1), TRUE, s)

SpecConcurrent == InitWithKey /\ [][NextConcurrent]_vars

\* The request bodies of the append-only scenario.
PayloadsAppend ==
    {[service_id |-> s, status |-> st, comments |-> None, plan |-> None] :
        s \in ServiceIds, st \in {"down", "invalid_status"}}

\* Every endpoint of the API and every public view is requested, with and
\* without the key 1, for services that are added, deactivated and
\* reactivated.
NextAppend ==
    \/ \E s \in ServiceIds : AdminAddService(s)
    \/ \E s \in ServiceIds, is_active \in BOOLEAN : AdminEditService(s, 0, is_active)
    \/ \E token \in {KeyToken(1), NoToken}, payload \in PayloadsAppend :
          create_status_update(token, TRUE, payload)
    \/ \E token \in {KeyToken(1), NoToken} : list_status_updates(token, TRUE, None)
    \/ \E token \in {KeyToken(1), NoToken}, update_id \in 1..MaxUpdates :
          get_status_update(token, TRUE, update_id)
    \/ \E token \in {KeyToken(1), NoToken}, active_only \in {None, Some(FALSE)} :
          list_services(token, TRUE, active_only)
    \/ \E token \in {KeyToken(1), NoToken}, s \in ServiceIds : get_service(token, TRUE, s)
    \/ \E token \in {KeyToken(1), NoToken}, s \in ServiceIds :
          get_service_history(token, TRUE, s, None)
    \/ health_check(NoToken)
    \/ status_page
    \/ \E s \in ServiceIds : service_detail(s)
    \/ \E s \in ServiceIds : service_history_json(s)

SpecAppend == InitWithKey /\ [][NextAppend]_vars

\* A database with the service 1 and no key, at any time of the clock.
InitGate ==
    /\ services = (1 :> NewService(1))
    /\ updates = <<>>
    /\ next_id = 1
    /\ keys = <<>>
    /\ now \in Times
    /\ resp = NoResponse
    /\ pending = <<>>

\* The request body of the gate scenario.
PayloadGate == [service_id |-> 1, status |-> "down", comments |-> None, plan |-> None]

\* The gate: keys are created, revoked and restored while every endpoint of
\* the API is requested with every kind of token.
NextGate ==
    \/ \E k \in KeyIds : AdminAddAPIKey(k)
    \/ \E k \in KeyIds, is_active \in BOOLEAN : AdminSetKeyActive(k, is_active)
    \/ \E token \in Tokens, saved \in BOOLEAN :
          create_status_update(token, saved, PayloadGate)
    \/ \E token \in Tokens, saved \in BOOLEAN : list_status_updates(token, saved, None)
    \/ \E token \in Tokens, saved \in BOOLEAN : get_status_update(token, saved, 1)
    \/ \E token \in Tokens, saved \in BOOLEAN : list_services(token, saved, None)
    \/ \E token \in Tokens, saved \in BOOLEAN : get_service(token, saved, 1)
    \/ \E token \in Tokens, saved \in BOOLEAN : get_service_history(token, saved, 1, None)
    \/ \E token \in Tokens : health_check(token)

SpecGate == InitGate /\ [][NextGate]_vars

\* The request bodies of the deletion scenario.
PayloadsDelete ==
    {[service_id |-> s, status |-> "down", comments |-> None, plan |-> None] : s \in ServiceIds}

\* Deletion: services are added, deactivated, reactivated and deleted, updates
\* are posted for them, and their histories are read.
NextDelete ==
    \/ \E s \in ServiceIds : AdminAddService(s)
    \/ \E s \in ServiceIds, is_active \in BOOLEAN : AdminEditService(s, 0, is_active)
    \/ \E s \in ServiceIds : AdminDeleteService(s)
    \/ \E payload \in PayloadsDelete : create_status_update(KeyToken(1), TRUE, payload)
    \/ \E s \in ServiceIds : get_service_history(KeyToken(1), TRUE, s, None)

SpecDelete == InitWithKey /\ [][NextDelete]_vars

\* ---- properties -----------------------------------------------------------

\* The step is a request to the operation op.
IsRequest(op) == resp'.op = op

\* The operations of the API that require a key.
ApiOps ==
    {"create_status_update", "list_status_updates", "get_status_update",
     "list_services", "get_service", "get_service_history"}

\* The step is a request to the API.
IsApiRequest == resp'.op \in ApiOps

\* The request of the step was authenticated: it got neither 401 nor 500.
Authenticated == resp'.code \notin {401, 500}

\* The row of service s that is the most recent: the greatest created_at and,
\* among the rows that share it, the one inserted last.
LatestUpdate(s) ==
    updates[CHOOSE i \in status_updates(s) :
                \A j \in status_updates(s) :
                    \/ updates[j].created_at < updates[i].created_at
                    \/ updates[j].created_at = updates[i].created_at /\ j <= i]

\* C1: GET /services/{id} of a service with updates reports as current_status
\* the update with the greatest created_at and, among several that share the
\* greatest created_at, the one inserted last.
C1_CurrentIsLatestInsertedLast ==
    [][(IsRequest("get_service") /\ resp'.code = 200 /\ status_updates(resp'.req) # {})
        => resp'.body.current_status = Some(status_update_to_dict(LatestUpdate(resp'.req)))]_vars

\* C2: GET /services/{id} of a service without any StatusUpdate reports
\* current_status = null (no update at all, so not a 'stable' one), and
\* get_current_status has no other result for it.
C2_NoUpdatesNoStatus ==
    (resp.op = "get_service" /\ resp.code = 200 /\ status_updates(resp.req) = {})
        => /\ resp.body.current_status = None
           /\ get_current_status(resp.req) = {None}

C2_Witness ==
    /\ resp.op = "get_service"
    /\ resp.code = 200
    /\ resp.body.current_status = None
    /\ updates # <<>>

\* The severity order down > partial > degraded > maintenance > stable.
Severity == [stable |-> 0, maintenance |-> 1, degraded |-> 2, partial |-> 3, down |-> 4]

MostSevere(S) ==
    IF S = {} THEN "stable"
    ELSE CHOOSE x \in S : \A y \in S : Severity[y] <= Severity[x]

\* The status codes of the current statuses listed in services_data.
CurrentCodes(services_data) ==
    {services_data[i].current_status[1].status :
        i \in {j \in DOMAIN services_data : services_data[j].current_status # None}}

\* C3: the overall status of the status page is the most severe current
\* status among the active services that have an update, stable when there
\* is none; the page lists exactly the active services, each with a result of
\* its get_current_status.
C3_OverallIsMostSevere ==
    resp.op = "status_page"
        => LET data == resp.body.services_data
           IN /\ {data[i].service : i \in DOMAIN data} = ActiveServices
              /\ \A i \in DOMAIN data : data[i].current_status \in get_current_status(data[i].service)
              /\ resp.body.overall_status = MostSevere(CurrentCodes(data))

\* A page whose overall status is down although a listed service is stable or
\* has no update, while an inactive service has updates.
C3_Witness ==
    /\ resp.op = "status_page"
    /\ resp.body.overall_status = "down"
    /\ \E i \in DOMAIN resp.body.services_data :
          resp.body.services_data[i].current_status # None
          /\ resp.body.services_data[i].current_status[1].status = "stable"

\* The rearrangements of the sequence seq.
Rearrangements(seq) ==
    {[i \in DOMAIN seq |-> seq[f[i]]] : f \in Permutations(DOMAIN seq)}

\* C4: the overall status of a status page is the result of the fold over
\* its services_data taken in any order.
C4_FoldOrderIndependent ==
    resp.op = "status_page"
        => \A data \in Rearrangements(resp.body.services_data) :
              FoldOverall(data, "stable") = resp.body.overall_status

\* A page with two services whose current statuses differ and are not stable.
C4_Witness ==
    /\ resp.op = "status_page"
    /\ \E i, j \in DOMAIN resp.body.services_data :
          LET a == resp.body.services_data[i].current_status
              b == resp.body.services_data[j].current_status
          IN /\ a # None /\ b # None
             /\ a[1].status = "maintenance" /\ b[1].status = "degraded"
             /\ i < j

\* ---- properties of the authenticator --------------------------------------

\* The response that says no more than "not authenticated".
Unauthorized(r) == r.code = 401 /\ r.body = [detail |-> "Unauthorized"]

\* C5: a request is authenticated only if a stored key equals its token and
\* is active; when no stored key does (the token is unknown, or it is the
\* token of a deactivated key) the answer is the same 401 in both cases.
C5_OnlyActiveKeysAuthenticate ==
    resp.op \in ApiOps
        => /\ resp.code \notin {401, 500} =>
                \E k \in DOMAIN keys : keys[k].key = resp.token /\ keys[k].is_active
           /\ (~\E k \in DOMAIN keys : keys[k].key = resp.token /\ keys[k].is_active)
                => Unauthorized(resp)

\* The correct token of a deactivated key was answered 401.
C5_Witness ==
    /\ resp.op \in ApiOps
    /\ Unauthorized(resp)
    /\ \E k \in DOMAIN keys : keys[k].key = resp.token /\ ~keys[k].is_active

\* C6: an authenticated request sets last_used_at of the key that matches its
\* token to the current time and changes nothing else in the key table.
C6_LastUsedWrittenOnSuccess ==
    [][(IsApiRequest /\ Authenticated)
        => \E k \in DOMAIN keys :
              /\ keys[k].key = resp'.token
              /\ keys' = [keys EXCEPT ![k].last_used_at = Some(now)]
              /\ keys'[k].last_used_at # None]_vars

\* A key was used after the clock advanced, while another key stays unused.
C6_Witness ==
    /\ resp.op \in ApiOps
    /\ resp.code \notin {401, 500}
    /\ now > 0
    /\ \E k, j \in DOMAIN keys :
          /\ keys[k].key = resp.token
          /\ keys[k].last_used_at = Some(now)
          /\ j # k /\ keys[j].last_used_at = None

\* C7: a request whose token is the key of an active APIKey is served, whether
\* or not the write of last_used_at was persisted.
C7_ServedDespiteSaveFailure ==
    [][(IsApiRequest /\ KeyLookup(resp'.token) # {}) => Authenticated]_vars

\* ---- properties of ingestion ----------------------------------------------

\* The five status codes.
FiveCodes == {"stable", "degraded", "partial", "down", "maintenance"}

\* C8: an authenticated POST for an existing service with a status that is
\* none of the five codes is answered 400, with a message that lists the five
\* codes, and stores nothing.
C8_InvalidStatusRejected ==
    [][(/\ IsRequest("create_status_update")
        /\ Authenticated
        /\ resp'.req.service_id \in DOMAIN services
        /\ resp'.req.status \notin FiveCodes)
        => /\ resp'.code = 400
           /\ \A code \in FiveCodes : InSeq(code, resp'.body.detail)
           /\ updates' = updates]_vars

C8_Witness ==
    /\ resp.op = "create_status_update"
    /\ resp.code = 400
    /\ resp.req.service_id \in DOMAIN services
    /\ resp.req.status = "invalid_status"

\* C9: an authenticated POST with a valid status stores an update exactly
\* when service_id is the id of a service, active or not; otherwise the answer
\* is 404 and nothing is stored.
C9_CreatedIffServiceExists ==
    [][(/\ IsRequest("create_status_update")
        /\ Authenticated
        /\ resp'.req.status \in FiveCodes)
        => /\ resp'.req.service_id \in DOMAIN services
                => resp'.code = 201 /\ Len(updates') = Len(updates) + 1
           /\ resp'.req.service_id \notin DOMAIN services
                => resp'.code = 404 /\ updates' = updates]_vars

\* An update was stored for a service that is not active.
C9_Witness ==
    /\ resp.op = "create_status_update"
    /\ resp.code = 201
    /\ resp.req.service_id \in DOMAIN services
    /\ ~services[resp.req.service_id].is_active
    /\ \E i \in DOMAIN updates : updates[i].id = resp.body.id

\* The text a request gives for comments or plan: empty when it gives none.
TextOf(x) == IF x = None THEN "" ELSE x[1]

\* C10: a POST answered 201 stores exactly one new row, after the rows there
\* were: created_by null, the service and status of the request, its comments
\* and plan (empty when omitted), a fresh id and the current time; the body is
\* that row.
C10_CreatedRowIsTheRequest ==
    [][(IsRequest("create_status_update") /\ resp'.code = 201)
        => /\ Len(updates') = Len(updates) + 1
           /\ SubSeq(updates', 1, Len(updates)) = updates
           /\ LET row == updates'[Len(updates')]
                  req == resp'.req
              IN /\ row.created_by = None
                 /\ row.service = req.service_id
                 /\ row.status = req.status
                 /\ row.comments = TextOf(req.comments)
                 /\ row.plan = TextOf(req.plan)
                 /\ row.created_at = now
                 /\ \A i \in DOMAIN updates : updates[i].id # row.id
                 /\ resp'.body = [id |-> row.id,
                                  service_id |-> row.service,
                                  service_name |-> services[row.service].name,
                                  status |-> row.status,
                                  status_display |-> get_status_display(row.status),
                                  comments |-> row.comments,
                                  plan |-> row.plan,
                                  created_at |-> row.created_at,
                                  created_by_username |-> None]]_vars

\* A second update was stored, with the comments and the plan of its request.
C10_Witness ==
    /\ resp.op = "create_status_update"
    /\ resp.code = 201
    /\ resp.req.comments = Some("Database connection lost")
    /\ resp.body.comments = "Database connection lost"
    /\ resp.req.plan = Some("")
    /\ resp.body.plan = ""
    /\ Len(updates) = 2
    /\ updates[2].id = resp.body.id

\* ---- properties of the readers --------------------------------------------

\* The response r is the 201 of a POST /status-updates.
Created(r) == r.op = "create_status_update" /\ r.code = 201

\* C11: a read that directly follows a POST answered 201 gives the update of
\* the 201 body, field for field: GET /status-updates/{id} as its body, GET
\* /services/{id}/history as its first entry, GET /services/{id} as its
\* current_status.
C11_RoundTrip ==
    [][Created(resp) =>
          /\ (IsRequest("get_status_update") /\ resp'.req = resp.body.id)
                 => resp'.code = 200 /\ resp'.body = resp.body
          /\ (IsRequest("get_service_history") /\ resp'.req.service_id = resp.body.service_id)
                 => resp'.code = 200 /\ Len(resp'.body) >= 1 /\ resp'.body[1] = resp.body
          /\ (IsRequest("get_service") /\ resp'.req = resp.body.service_id)
                 => resp'.code = 200 /\ resp'.body.current_status = Some(resp.body)]_vars

\* The entries of a response body are in descending created_at.
MostRecentFirst(body) ==
    \A i, j \in DOMAIN body : i < j => body[i].created_at >= body[j].created_at

\* The body lists rows of the set `rows` of stored rows, each once, and no
\* row left out is more recent than a row listed.
PrefixOfSorted(body, rows) ==
    /\ \A i \in DOMAIN body : \E u \in rows : body[i] = status_update_to_dict(u)
    /\ \A i, j \in DOMAIN body : i # j => body[i].id # body[j].id
    /\ \A u \in rows :
          (\A i \in DOMAIN body : body[i].id # u.id)
             => \A i \in DOMAIN body : body[i].created_at >= u.created_at

\* The stored rows, and those of the service s.
AllRows == {updates[i] : i \in DOMAIN updates}
RowsOf(s) == {u \in AllRows : u.service = s}

\* C13: the history of a service lists only updates of that service, most
\* recent first, a prefix of its updates in descending created_at; the list
\* of all updates is in the same order over all services; and in a history an
\* update 'stable' posted after an update 'down' stands before it.
C13_MostRecentFirst ==
    /\ (resp.op = "get_service_history" /\ resp.code = 200) =>
          /\ MostRecentFirst(resp.body)
          /\ PrefixOfSorted(resp.body, RowsOf(resp.req.service_id))
          /\ \A i, j \in DOMAIN resp.body :
                (/\ resp.body[i].status = "down"
                 /\ resp.body[j].status = "stable"
                 /\ resp.body[i].id < resp.body[j].id) => j < i
    /\ (resp.op = "list_status_updates" /\ resp.code = 200) =>
          /\ MostRecentFirst(resp.body)
          /\ PrefixOfSorted(resp.body, AllRows)

\* C14: a POST of any valid status for a service, whatever its current
\* status, is answered 201, and the update it stores is from then on the
\* only result of the service's get_current_status.
C14_AnyTransition ==
    [][(/\ IsRequest("create_status_update")
        /\ Authenticated
        /\ ServiceResolves(resp'.req.service_id)
        /\ resp'.req.status \in FiveCodes)
          => /\ resp'.code = 201
             /\ \A s \in DOMAIN services :
                   s = resp'.req.service_id
                      => get_current_status(s)' = {Some(updates'[Len(updates')])}]_vars

\* The lesser of two integers.
Min(a, b) == IF a < b THEN a ELSE b

\* The number of rows a response returns: those of its list, none when the
\* request failed.
RowsReturned(r) == IF r.code = 200 THEN Len(r.body) ELSE 0

\* The limit given with the listing request that r answers.
LimitOf(r) == IF r.op = "list_status_updates" THEN r.req ELSE r.req.limit

\* The response r answers a request for one of the two listings.
IsListing(r) == r.op \in {"list_status_updates", "get_service_history"}

\* C12: for every integer limit N, GET /status-updates?limit=N returns at
\* most min(N, 200) rows and GET /services/{id}/history?limit=N at most
\* min(N, 100) rows; without a limit they return at most 50 and 20 rows.
C12_LimitsBoundTheListings ==
    /\ resp.op = "list_status_updates" =>
          RowsReturned(resp) <= (IF resp.req = None THEN 50 ELSE Min(resp.req[1], 200))
    /\ resp.op = "get_service_history" =>
          RowsReturned(resp) <= (IF resp.req.limit = None THEN 20
                                 ELSE Min(resp.req.limit[1], 100))

\* C12, amended: the bounds of C12 hold for every limit N >= 0 and for no
\* limit given, the request being answered 200; a request with a negative
\* limit fails with 500 and returns no list.
C12_NonNegativeLimitsBoundTheListings ==
    IsListing(resp) =>
        IF LimitOf(resp) # None /\ LimitOf(resp)[1] < 0
        THEN resp.code = 500
        ELSE resp.code = 200 /\ C12_LimitsBoundTheListings

\* More rows are stored than a cap allows, and a listing asked for more than
\* its cap returned as many rows as the cap.
C12_Witness ==
    /\ IsListing(resp)
    /\ LimitOf(resp) = Some(1000)
    /\ Len(updates) > 200
    /\ RowsReturned(resp) = (IF resp.op = "list_status_updates" THEN 200 ELSE 100)
\* ---- properties of concurrent ingestion -----------------------------------

\* The stored rows of service s, in the order of their inserts.
Committed(s) == SelectSeq(updates, LAMBDA u : u.service = s)

\* C15: when the POSTs of two clients for one service have both committed,
\* the service's current status is the update whose insert committed last.
\* Stated for updates that differ in created_at, so that the order of rows
\* of equal created_at plays no part.
C15_LastCommittedIsCurrent ==
    \A s \in DOMAIN services :
        (/\ \A c \in DOMAIN pending : pending[c].update.service # s
         /\ Len(Committed(s)) = 2
         /\ Committed(s)[1].created_at # Committed(s)[2].created_at)
            => get_current_status(s) = {Some(Committed(s)[2])}

\* C15, amended: an insert stores the row its handler built, under a fresh
\* id, and leaves every stored row in place, so neither of two concurrent
\* updates is lost; the current status GET /services/{id} reports is an update
\* of the greatest created_at, the time at which its handler built it,
\* whichever insert committed last.
C15_BothStoredLatestBuiltIsCurrent ==
    [][/\ \A i \in DOMAIN updates : i \in DOMAIN updates' /\ updates'[i] = updates[i]
       /\ \A c \in DOMAIN pending :
             c \notin DOMAIN pending'
                => updates' = Append(updates, [pending[c].update EXCEPT !.id = next_id])
       /\ (IsRequest("get_service") /\ resp'.code = 200)
             => IF RowsOf(resp'.req) = {}
                THEN resp'.body.current_status = None
                ELSE /\ resp'.body.current_status # None
                     /\ \E u \in RowsOf(resp'.req) :
                           /\ resp'.body.current_status[1] = status_update_to_dict(u)
                           /\ \A v \in RowsOf(resp'.req) : v.created_at <= u.created_at]_vars

\* Two updates of one service were built in one order and inserted in the
\* other, and GET /services/{id} reported the one inserted first.
C15_Witness ==
    /\ resp.op = "get_service" /\ resp.code = 200
    /\ Len(Committed(resp.req)) = 2
    /\ Committed(resp.req)[1].created_at > Committed(resp.req)[2].created_at
    /\ resp.body.current_status = Some(status_update_to_dict(Committed(resp.req)[1]))

\* ---- properties of the whole interface ------------------------------------

\* The public views.
ViewOps == {"status_page", "service_detail", "service_history_json"}

\* C16: a request to the API or to a public view leaves the services as they
\* are and the stored updates as they are, except a POST /status-updates
\* answered 201, which leaves the stored rows in place and adds exactly one;
\* every other request, the GETs among them, changes no row.
C16_AppendOnly ==
    [][(resp'.op \in ApiOps \cup ViewOps \cup {"health_check"}) =>
          /\ services' = services
          /\ IF Created(resp')
             THEN /\ Len(updates') = Len(updates) + 1
                  /\ SubSeq(updates', 1, Len(updates)) = updates
             ELSE updates' = updates]_vars

\* A second update was added for a service, the first still stored.
C16_Witness ==
    /\ Created(resp)
    /\ Len(updates) = 2
    /\ updates[1].service = updates[2].service

\* A stored key equals the token and is active.
ActiveKeyMatches(token) == \E k \in DOMAIN keys : keys[k].key = token /\ keys[k].is_active

\* The codes with which the handlers of the API answer.
HandlerCodes == {200, 201, 400, 404}

\* C17: every endpoint of the API but GET /health answers from its handler
\* only a request whose token is the key of an active APIKey, and answers 401
\* a request whose token is missing, unknown or the key of a deactivated
\* APIKey; GET /health answers {message: "API is running"} whatever the
\* credentials, none included.
C17_AllButHealthBehindTheKey ==
    /\ resp.op \in ApiOps =>
          /\ resp.code \in HandlerCodes => ActiveKeyMatches(resp.token)
          /\ ~ActiveKeyMatches(resp.token) => Unauthorized(resp)
    /\ resp.op = "health_check" =>
          resp.code = 200 /\ resp.body = [message |-> "API is running"]

\* GET /health was answered without credentials while no active key exists
\* and a deactivated one does.
C17_Witness ==
    /\ resp.op = "health_check"
    /\ resp.token = NoToken
    /\ resp.code = 200
    /\ DOMAIN keys # {}
    /\ \A k \in DOMAIN keys : ~keys[k].is_active

\* C19: a request to the API answered 401 leaves the store as it was: no
\* update is created, no service changes and no key changes, so that no
\* last_used_at is written, that of the deactivated key whose token was
\* presented included.
C19_RejectedRequestChangesNothing ==
    [][(IsApiRequest /\ resp'.code = 401)
          => UNCHANGED <<services, updates, next_id, keys, pending>>]_vars

\* A POST with the token of a deactivated key, used before its revocation at
\* an earlier time or never, was answered 401.
C19_Witness ==
    /\ resp.op = "create_status_update"
    /\ Unauthorized(resp)
    /\ \E k \in DOMAIN keys :
          /\ keys[k].key = resp.token
          /\ ~keys[k].is_active
          /\ keys[k].last_used_at # Some(now)

\* ---- properties of deletion -----------------------------------------------

\* Every stored update references a service that exists.
ReferentialIntegrity == \A i \in DOMAIN updates : updates[i].service \in DOMAIN services

\* C18: every stored update references an existing service, in every state;
\* the deletion of a service deletes exactly its updates; the deactivation of
\* a service deletes no service and no update, and GET
\* /services/{id}/history of a service that is not active is answered 200 with
\* the updates stored for it.
C18_DeleteCascadesDeactivateKeeps ==
    /\ []ReferentialIntegrity
    /\ [][/\ \A s \in DOMAIN services :
                s \notin DOMAIN services'
                   => updates' = SelectSeq(updates, LAMBDA u : u.service # s)
          /\ \A s \in DOMAIN services :
                (s \in DOMAIN services' /\ services[s].is_active /\ ~services'[s].is_active)
                   => updates' = updates /\ DOMAIN services' = DOMAIN services
          /\ (/\ IsRequest("get_service_history")
              /\ resp'.req.service_id \in DOMAIN services
              /\ ~services[resp'.req.service_id].is_active)
                => /\ resp'.code = 200
                   /\ {resp'.body[i] : i \in DOMAIN resp'.body}
                         = {status_update_to_dict(u) : u \in RowsOf(resp'.req.service_id)}]_vars

\* The history of a deactivated service was read and lists an update, after a
\* service was deleted together with an update of its own.
C18_Witness ==
    /\ resp.op = "get_service_history" /\ resp.code = 200
    /\ ~services[resp.req.service_id].is_active
    /\ Len(resp.body) = 1
    /\ Len(updates) = 1
    /\ next_id = 3
    /\ DOMAIN services = {resp.req.service_id}

\* ---- properties of the order of the checks --------------------------------

\* C20: an authenticated POST whose service_id is the id of no service and
\* whose status is none of the five codes is answered 404, not 400; and a POST
\* answered 404 or 400 stores no update.
C20_LookupBeforeStatusCheck ==
    [][(IsRequest("create_status_update") /\ Authenticated) =>
          /\ (~ServiceResolves(resp'.req.service_id) /\ resp'.req.status \notin FiveCodes)
                => resp'.code = 404 /\ resp'.body = [detail |-> "Not Found"]
          /\ resp'.code \in {400, 404} => updates' = updates /\ next_id' = next_id]_vars

\* A POST with an invalid status for a service that does not exist was
\* answered 404 while another service exists and has an update.
C20_Witness ==
    /\ resp.op = "create_status_update"
    /\ resp.code = 404
    /\ resp.req.status = "invalid_status"
    /\ resp.req.service_id \notin DOMAIN services
    /\ updates # <<>>

====
